---- MODULE Spec2Model ----
(***************************************************************************)
(* Model of the conversion pipeline of src/main.py: custom_relpath,        *)
(* convert_exe_to_sb3, _update_progress and _cleanup_temp_dir, run against *)
(* a small file system.                                                    *)
(*                                                                         *)
(* A path string is a sequence of characters.  Each element is one         *)
(* character, except that the literals the source spells out               *)
(* ("packaged-project", "resources", "app", "temp_extract", "sb3", "zip")  *)
(* and the drive "C:" are kept as single symbols; they never occur inside  *)
(* the user-chosen names of the model, so character-wise prefix and        *)
(* containment tests give the same answers as on the real strings.         *)
(* A file-system path is a sequence of such strings, one per component.    *)
(***************************************************************************)
EXTENDS Integers, Sequences, FiniteSets, TLC

VARIABLES
    os,        \* host convention: "nt" (os.sep = backslash) or "posix"
    files,     \* file system: path of every regular file |-> its content
    dirs,      \* file system: set of paths of the directories
    pc,        \* position inside convert_exe_to_sb3, or "idle" between calls
    call,      \* arguments and locals of the running call
    events,    \* percent values handed to progress_callback in this call
    result,    \* "none" while running, then "True", "False" or "raised"
    log,       \* facts recorded about the running call
    prev,      \* arguments and outcome of the call before this one
    calls,     \* number of calls started
    faults,    \* number of file-system faults injected
    rel        \* one application of custom_relpath: arguments and result

vars == <<os, files, dirs, pc, call, events, result, log, prev, calls, faults, rel>>

\* ------------------------------------------------------------------ bounds
MaxCalls == 3
MaxFaults == 1
MaxPathLen == 4
MaxStartLen == 2

\* ------------------------------------------------- characters and strings
BSL == "\\"
FSL == "/"
DOT == "."

\* os.sep
Sep(o) == IF o = "nt" THEN BSL ELSE FSL

\* the characters the host treats as separators (os.sep and os.altsep)
Seps(o) == IF o = "nt" THEN {BSL, FSL} ELSE {FSL}

\* str.split(c), generalised to a set of separator characters
RECURSIVE SplitOn(_, _)
SplitOn(s, seps) ==
    IF \A i \in 1..Len(s) : s[i] \notin seps
    THEN <<s>>
    ELSE LET k == CHOOSE i \in 1..Len(s) :
                      s[i] \in seps /\ \A j \in 1..(i - 1) : s[j] \notin seps
         IN  <<SubSeq(s, 1, k - 1)>> \o SplitOn(SubSeq(s, k + 1, Len(s)), seps)

\* c.join(parts)
RECURSIVE JoinWith(_, _)
JoinWith(parts, c) ==
    IF parts = <<>> THEN <<>>
    ELSE IF Len(parts) = 1 THEN parts[1]
    ELSE parts[1] \o <<c>> \o JoinWith(Tail(parts), c)

\* s.lstrip(c)
RECURSIVE LStrip(_, _)
LStrip(s, c) ==
    IF s # <<>> /\ Head(s) = c THEN LStrip(Tail(s), c) ELSE s

\* s.replace(a, b) for single characters
Replace(s, a, b) == [i \in 1..Len(s) |-> IF s[i] = a THEN b ELSE s[i]]

\* a in b for strings
IsSubstr(a, b) ==
    \E i \in 0..(Len(b) - Len(a)) : SubSeq(b, i + 1, i + Len(a)) = a

\* os.path.commonprefix([a, b]): the longest common leading run of characters
CommonPrefix(a, b) ==
    LET n == IF Len(a) < Len(b) THEN Len(a) ELSE Len(b)
        agree == {k \in 0..n : \A i \in 1..k : a[i] = b[i]}
        k == CHOOSE m \in agree : \A m2 \in agree : m2 <= m
    IN  SubSeq(a, 1, k)

\* os.path.splitdrive: the drive symbol, if the host has drives
Drive(o, s) == IF o = "nt" /\ s # <<>> /\ s[1] = "C:" THEN <<"C:">> ELSE <<>>
NoDrive(o, s) == SubSeq(s, Len(Drive(o, s)) + 1, Len(s))

\* os.path.isabs
IsAbs(o, s) ==
    LET r == NoDrive(o, s)
    IN  r # <<>> /\ r[1] \in Seps(o) /\ (o = "nt" => Drive(o, s) # <<>>)

\* os.getcwd(): the process runs in the root directory
Cwd(o) == IF o = "nt" THEN <<"C:", BSL>> ELSE <<FSL>>

\* os.path.join(a, b) for a relative b
Join(o, a, b) ==
    IF a = <<>> \/ a[Len(a)] \in Seps(o) \/ (o = "nt" /\ a = <<"C:">>)
    THEN a \o b
    ELSE a \o <<Sep(o)>> \o b

\* the component loop of normpath: drops '' and '.', resolves '..'
RECURSIVE Collapse(_, _, _)
Collapse(comps, acc, rooted) ==
    IF comps = <<>> THEN acc
    ELSE LET c == Head(comps)
             t == Tail(comps)
         IN  IF c = <<>> \/ c = <<DOT>> THEN Collapse(t, acc, rooted)
             ELSE IF c # <<DOT, DOT>> THEN Collapse(t, Append(acc, c), rooted)
             ELSE IF acc # <<>> /\ acc[Len(acc)] # <<DOT, DOT>>
                  THEN Collapse(t, SubSeq(acc, 1, Len(acc) - 1), rooted)
             ELSE IF rooted THEN Collapse(t, acc, rooted)
             ELSE Collapse(t, Append(acc, c), rooted)

\* os.path.normpath
NormPath(o, s) ==
    LET d == Drive(o, s)
        r == NoDrive(o, s)
        rooted == r # <<>> /\ r[1] \in Seps(o)
        two == o = "posix" /\ Len(r) >= 2 /\ r[1] = FSL /\ r[2] = FSL
                 /\ ~(Len(r) >= 3 /\ r[3] = FSL)
        root == IF two THEN <<FSL, FSL>>
                ELSE IF rooted THEN <<Sep(o)>> ELSE <<>>
        body == JoinWith(Collapse(SplitOn(r, Seps(o)), <<>>, rooted), Sep(o))
        out == d \o root \o body
    IN  IF out = <<>> THEN <<DOT>> ELSE out

\* os.path.abspath
AbsPath(o, s) ==
    NormPath(o, IF IsAbs(o, s) THEN s ELSE Join(o, Cwd(o), s))

\* the components of a normalised absolute path string
Components(o, a) ==
    (IF Drive(o, a) = <<>> THEN <<>> ELSE <<Drive(o, a)>>)
      \o Collapse(SplitOn(NoDrive(o, a), Seps(o)), <<>>, TRUE)

\* the file-system path a path string names on the host
Resolve(o, s) == Components(o, AbsPath(o, s))

\* ------------------------------------------------------- custom_relpath
\* the loop over parts: '..' pops, '.' is skipped, the rest is appended
RECURSIVE RelParts(_, _)
RelParts(parts, acc) ==
    IF parts = <<>> THEN acc
    ELSE LET p == Head(parts)
         IN  IF p = <<DOT, DOT>>
             THEN RelParts(Tail(parts),
                           IF acc # <<>> THEN SubSeq(acc, 1, Len(acc) - 1) ELSE acc)
             ELSE IF p # <<DOT>> THEN RelParts(Tail(parts), Append(acc, p))
             ELSE RelParts(Tail(parts), acc)

\* lines 30-47, on the two normalised absolute paths
RelativeTo(o, path, start) ==
    IF ~IsSubstr(start, path) THEN path
    ELSE JoinWith(RelParts(SplitOn(LStrip(SubSeq(path,
                                                 Len(CommonPrefix(path, start)) + 1,
                                                 Len(path)),
                                          Sep(o)),
                                   {Sep(o)}),
                           <<>>),
                  Sep(o))

custom_relpath(o, path, start) ==
    RelativeTo(o, AbsPath(o, NormPath(o, path)), AbsPath(o, NormPath(o, start)))

\* ------------------------------------------------------------ file system
PP == "packaged-project"
RES == "resources"
APP == "app"
TMP == "temp_extract"

\* content of a regular file: plain data, or a zip archive with its members
DataContent(d) == [zip |-> FALSE, data |-> d, members |-> <<>>]
ZipContent(ms) == [zip |-> TRUE, data |-> "", members |-> ms]
Member(n, d, g) == [name |-> n, data |-> d, good |-> g]

IsPrefix(p, q) == Len(p) <= Len(q) /\ SubSeq(q, 1, Len(p)) = p
Under(top, fl, ds) == {q \in (DOMAIN fl) \cup ds : IsPrefix(top, q)}
Parent(p) == SubSeq(p, 1, Len(p) - 1)

\* a set listed in some fixed order (the order in which scandir lists a directory)
RECURSIVE SeqOf(_)
SeqOf(S) ==
    IF S = {} THEN <<>>
    ELSE LET x == CHOOSE y \in S : TRUE IN <<x>> \o SeqOf(S \ {x})

\* os.path.exists: a trailing separator demands a directory
ExistsAt(p, slash, fl, ds) ==
    p \in ds \/ (p \in DOMAIN fl /\ ~slash)

Exists(o, s, fl, ds) ==
    ExistsAt(Resolve(o, s), s[Len(s)] \in Seps(o), fl, ds)

\* os.makedirs(path, exist_ok=True): the directories it leaves, or the error
MakeDirs(p, fl, ds) ==
    IF \E k \in 1..Len(p) : SubSeq(p, 1, k) \in DOMAIN fl
    THEN [ok |-> FALSE, dirs |-> ds]
    ELSE [ok |-> TRUE, dirs |-> ds \cup {SubSeq(p, 1, k) : k \in 1..Len(p)}]

\* open(path, "wb") followed by the write of the content
WriteFile(p, c, fl) ==
    [q \in (DOMAIN fl) \cup {p} |-> IF q = p THEN c ELSE fl[q]]

RemoveFiles(gone, fl) == [q \in (DOMAIN fl) \ gone |-> fl[q]]

\* the member name with '', '.' and '..' components removed
CleanName(o, arcname) ==
    JoinWith(SelectSeq(SplitOn(arcname, {Sep(o)}),
                       LAMBDA x : x \notin {<<>>, <<DOT>>, <<DOT, DOT>>}),
             Sep(o))

\* ZipFile._extract_member: sanitised name joined to the target directory
ExtractTarget(o, targetpath, name) ==
    Resolve(o, NormPath(o, Join(o, targetpath,
                                CleanName(o, NoDrive(o, Replace(name, FSL, Sep(o)))))))

\* ZipFile.extractall: members in archive order; a member whose CRC is wrong
\* leaves an empty file and raises BadZipFile, a name clash raises OSError
RECURSIVE ExtractAll(_, _, _, _, _)
RECURSIVE ExtractMember(_, _, _, _, _, _)
RECURSIVE ExtractInto(_, _, _, _, _, _, _)
ExtractAll(o, targetpath, ms, fl, ds) ==
    IF ms = <<>> THEN [status |-> "ok", files |-> fl, dirs |-> ds]
    ELSE ExtractMember(o, targetpath, ms, fl, ds,
                       ExtractTarget(o, targetpath, Head(ms).name))
ExtractMember(o, targetpath, ms, fl, ds, t) ==
    ExtractInto(o, targetpath, ms, fl, t, MakeDirs(Parent(t), fl, ds),
                DataContent(Head(ms).data))
ExtractInto(o, targetpath, ms, fl, t, up, c) ==
    IF ~up.ok \/ t \in up.dirs
    THEN [status |-> "oserror", files |-> fl, dirs |-> up.dirs]
    ELSE IF ~Head(ms).good
    THEN [status |-> "badzip", files |-> WriteFile(t, DataContent(""), fl),
          dirs |-> up.dirs]
    ELSE ExtractAll(o, targetpath, Tail(ms), WriteFile(t, c, fl), up.dirs)

\* the names of the entries of directory p among the paths S
Kids(p, S) ==
    {q[Len(p) + 1] : q \in {r \in S : IsPrefix(p, r) /\ Len(r) = Len(p) + 1}}

\* os.walk(top): the (root, files) pairs, roots as the strings walk builds
RECURSIVE Walk(_, _, _, _)
RECURSIVE WalkAt(_, _, _, _, _)
RECURSIVE WalkBelow(_, _, _, _, _)
Walk(o, top, fl, ds) == WalkAt(o, top, Resolve(o, top), fl, ds)
WalkAt(o, top, p, fl, ds) ==
    IF p \notin ds THEN <<>>
    ELSE <<[root |-> top, files |-> SeqOf(Kids(p, DOMAIN fl))]>>
           \o WalkBelow(o, top, SeqOf(Kids(p, ds)), fl, ds)
WalkBelow(o, top, subs, fl, ds) ==
    IF subs = <<>> THEN <<>>
    ELSE Walk(o, Join(o, top, Head(subs)), fl, ds)
           \o WalkBelow(o, top, Tail(subs), fl, ds)

\* ---------------------------------------------------- the world of a run
\* paths as the file and directory pickers hand them over (forward slashes)
Root(o) == IF o = "nt" THEN <<"C:", FSL>> ELSE <<FSL>>
OutputDir(o) == Root(o) \o <<"o">>
InputDir(o) == Root(o) \o <<"i">>
InputNames == {"v", "l", "n", "k"}
InputPath(o, n) == InputDir(o) \o <<FSL, n, DOT, "zip">>
Inputs(o) == {InputPath(o, n) : n \in InputNames}

AppPrefix == <<PP, FSL, RES, FSL, APP, FSL>>

\* v: well-formed, with the resources directory; l: well-formed, without it;
\* n: not a zip; k: a zip whose second member has a wrong CRC
Archive(n) ==
    CASE n = "v" -> ZipContent(<<Member(<<PP, FSL, "e">>, "d0", TRUE),
                              Member(AppPrefix \o <<"p">>, "d1", TRUE),
                              Member(AppPrefix \o <<"a", FSL, "i">>, "d2", TRUE)>>)
      [] n = "l" -> ZipContent(<<Member(<<PP, FSL, "e">>, "d0", TRUE)>>)
      [] n = "k" -> ZipContent(<<Member(AppPrefix \o <<"s">>, "d4", TRUE),
                              Member(AppPrefix \o <<"t">>, "d5", FALSE)>>)
      [] OTHER   -> DataContent("d9")

\* what the progress callback does when called with a percent value:
\* "none" is no callback, "closed" raises RuntimeError on every call,
\* "bad0", "bad100", "badAll" raise another exception at 0, at 100, always
Callbacks == {"none", "ok", "closed", "bad0", "bad100", "badAll"}
CallbackRaises(cb, v) ==
    \/ cb = "badAll"
    \/ cb = "bad0" /\ v = 0
    \/ cb = "bad100" /\ v = 100

NoCall == [zip |-> <<>>, out |-> <<>>, cb |-> "none", target |-> <<>>,
           temp_dir |-> <<>>, app_dir |-> <<>>]
NoLog == [fault |-> FALSE, escaped |-> FALSE, cleanupFailed |-> FALSE,
          repacked |-> FALSE, cleaned |-> FALSE, files0 |-> <<>>, dirs0 |-> {}]
NoPrev == [zip |-> <<>>, out |-> <<>>, result |-> "none", fault |-> FALSE,
           escaped |-> FALSE, output |-> <<>>]
NoRel == [path |-> <<>>, start |-> <<>>, out |-> <<>>, failed |-> FALSE, done |-> FALSE]

\* the input archives, and one file of the user's in the output directory
Bystander(o) == Join(o, OutputDir(o), <<"b">>)

InitFiles(o) ==
    [q \in {Resolve(o, InputPath(o, n)) : n \in InputNames}
             \cup {Resolve(o, Bystander(o))} |->
        IF q = Resolve(o, Bystander(o)) THEN DataContent("d8")
        ELSE Archive(CHOOSE n \in InputNames : Resolve(o, InputPath(o, n)) = q)]

InitDirs(o) ==
    {<<>>} \cup MakeDirs(Resolve(o, OutputDir(o)), <<>>,
                         MakeDirs(Resolve(o, InputDir(o)), <<>>, {}).dirs).dirs

Init ==
    /\ os \in {"nt", "posix"}
    /\ files = InitFiles(os)
    /\ dirs = InitDirs(os)
    /\ pc = "idle"
    /\ call = NoCall
    /\ events = <<>>
    /\ result = "none"
    /\ log = NoLog
    /\ prev = NoPrev
    /\ calls = 0
    /\ faults = 0
    /\ rel = NoRel

\* ------------------------------------------------------ _update_progress
\* the percent values the callback has received once it is called with v
Emitted(cb, evs, v) == IF cb = "none" THEN evs ELSE Append(evs, v)

\* an exception leaves _update_progress: only RuntimeError is swallowed
Escapes(cb, v) == cb # "none" /\ CallbackRaises(cb, v)

\* the handler of the outer try: report 0 and return False
Unexpected(cb, evs) ==
    [events |-> Emitted(cb, evs, 0),
     result |-> IF Escapes(cb, 0) THEN "raised" ELSE "False",
     pc |-> "done", escaped |-> Escapes(cb, 0)]

\* a variant that returns False without reporting the failure
FailedSilently(cb, evs) ==
    [events |-> evs, result |-> "False", pc |-> "done", escaped |-> FALSE]

\* a classified failure inside the outer try: report 0 and return False
Failed(cb, evs) ==
    IF Escapes(cb, 0)
    THEN [Unexpected(cb, Emitted(cb, evs, 0)) EXCEPT !.escaped = TRUE]
    ELSE [events |-> Emitted(cb, evs, 0), result |-> "False", pc |-> "done",
          escaped |-> FALSE]

\* a milestone inside the outer try, then on to the next stage
Milestone(cb, evs, v, next) ==
    IF Escapes(cb, v)
    THEN [Unexpected(cb, Emitted(cb, evs, v)) EXCEPT !.escaped = TRUE]
    ELSE [events |-> Emitted(cb, evs, v),
          result |-> IF next = "done" THEN "True" ELSE "none",
          pc |-> next, escaped |-> FALSE]

\* ---------------------------------------------------- convert_exe_to_sb3
\* os.path.basename
BaseName(o, s) ==
    LET parts == SplitOn(NoDrive(o, s), Seps(o)) IN parts[Len(parts)]

\* os.path.splitext(name)[0]: up to the last dot, unless the dot leads the name
SplitExtStem(n) ==
    LET ds == {i \in 1..Len(n) : n[i] = DOT /\ \E j \in 1..(i - 1) : n[j] # DOT}
    IN  IF ds = {} THEN n
        ELSE SubSeq(n, 1, (CHOOSE i \in ds : \A j \in ds : j <= i) - 1)

TargetZipName(o, zip, out) ==
    Join(o, out, SplitExtStem(BaseName(o, zip)) \o <<DOT, "sb3">>)

\* a variant that extracts straight into the output directory
TempDirIsOutputDir(o, out) == out

TempDir(o, out) == Join(o, out, <<TMP>>)

\* the two loops that rewrite every '/' of temp_dir to a backslash
RewriteSeparators(s) == Replace(s, FSL, BSL)

AppDir(o, temp_dir) ==
    Join(o, Join(o, Join(o, temp_dir, <<PP>>), <<RES>>), <<APP>>) \o <<BSL>>

\* s.lstrip(os.sep + os.altsep)
RECURSIVE LStripSeps(_, _)
LStripSeps(o, t) ==
    IF t # <<>> /\ Head(t) \in Seps(o) THEN LStripSeps(o, Tail(t)) ELSE t

\* ZipFile.write(src, arcname=...): the name the entry gets in the archive
ArcName(o, s) ==
    Replace(LStripSeps(o, NormPath(o, NoDrive(o, s))), Sep(o), FSL)

\* the entries written for one (root, files) pair of the walk
RECURSIVE EntriesOf(_, _, _, _, _)
EntriesOf(o, root, fs, app_dir, fl) ==
    IF fs = <<>> THEN <<>>
    ELSE LET file == Head(fs)
             src_path == Join(o, root, file)
             rel_path == Join(o, custom_relpath(o, root, app_dir), file)
         IN  <<Member(ArcName(o, rel_path), fl[Resolve(o, src_path)].data, TRUE)>>
               \o EntriesOf(o, root, Tail(fs), app_dir, fl)

\* the entries written by the walk over app_dir
RECURSIVE Repacked(_, _, _, _)
Repacked(o, w, app_dir, fl) ==
    IF w = <<>> THEN <<>>
    ELSE EntriesOf(o, Head(w).root, Head(w).files, app_dir, fl)
           \o Repacked(o, Tail(w), app_dir, fl)

\* the bottom-up removal of lines 137-142 under fault f: "none", "first"
\* (the first removal fails) or "last" (only the final rmdir fails)
RemoveTree(top, fl, ds, f) ==
    IF top \notin ds \/ f = "first"
    THEN [files |-> fl, dirs |-> ds, failed |-> TRUE, raised |-> FALSE]
    ELSE [files |-> RemoveFiles(Under(top, fl, ds), fl),
          dirs |-> (ds \ Under(top, fl, ds)) \cup (IF f = "last" THEN {top} ELSE {}),
          failed |-> f = "last", raised |-> FALSE]

\* a variant without the try/except: the removal error leaves the function
Unguarded(c) == [c EXCEPT !.raised = c.failed]
CleanupUnguarded(o, temp_dir, fl, ds, f) ==
    Unguarded(RemoveTree(Resolve(o, temp_dir), fl, ds, f))

\* _cleanup_temp_dir: the except clause keeps every error inside
_cleanup_temp_dir(o, temp_dir, fl, ds, f) ==
    RemoveTree(Resolve(o, temp_dir), fl, ds, f)

FaultFree(f) == f = "none"
MayFault(f) == FaultFree(f) \/ faults < MaxFaults
Count(f) == IF FaultFree(f) THEN faults ELSE faults + 1

Advance(r) ==
    /\ events' = r.events
    /\ result' = r.result
    /\ pc' = r.pc

\* lines 60-70: names, makedirs, the 10% milestone
CallStep(zip, out, cb, f, temp_dir, md) ==
    LET r == IF f = "fail" \/ ~md.ok THEN Unexpected(cb, <<>>)
             ELSE Milestone(cb, <<>>, 10, "extract")
    IN  /\ Advance(r)
        /\ dirs' = IF f = "fail" THEN dirs ELSE md.dirs
        /\ call' = [zip |-> zip, out |-> out, cb |-> cb,
                    target |-> TargetZipName(os, zip, out),
                    temp_dir |-> temp_dir, app_dir |-> <<>>]
        /\ log' = [NoLog EXCEPT !.fault = ~FaultFree(f), !.escaped = r.escaped,
                                !.files0 = files, !.dirs0 = dirs]

Call(zip, out, cb, f) ==
    /\ pc = "idle"
    /\ calls < MaxCalls
    /\ MayFault(f)
    /\ CallStep(zip, out, cb, f, TempDir(os, out),
                MakeDirs(Resolve(os, TempDir(os, out)), files, dirs))
    /\ calls' = calls + 1
    /\ faults' = Count(f)
    /\ UNCHANGED <<os, files, prev, rel>>

\* lines 73-74: ZipFile(zip_file_name) and extractall(temp_dir)
Extracted(src, f) ==
    IF f = "fail" \/ src \notin DOMAIN files
    THEN [status |-> "oserror", files |-> files, dirs |-> dirs]
    ELSE IF ~files[src].zip
    THEN [status |-> "badzip", files |-> files, dirs |-> dirs]
    ELSE ExtractAll(os, call.temp_dir, files[src].members, files, dirs)

ExtractStep(f, x) ==
    LET r == IF x.status = "ok"
             THEN [events |-> events, result |-> "none", pc |-> "validate",
                   escaped |-> FALSE]
             ELSE IF x.status = "badzip" THEN Failed(call.cb, events)
             ELSE Unexpected(call.cb, events)
    IN  /\ Advance(r)
        /\ files' = x.files
        /\ dirs' = x.dirs
        /\ log' = [log EXCEPT !.fault = @ \/ ~FaultFree(f), !.escaped = @ \/ r.escaped]

\* lines 72-77: open the archive and extract it into temp_dir
Extract(f) ==
    /\ pc = "extract"
    /\ MayFault(f)
    /\ ExtractStep(f, Extracted(Resolve(os, call.zip), f))
    /\ faults' = Count(f)
    /\ UNCHANGED <<os, call, prev, calls, rel>>

ValidateStep(temp_dir, app_dir, found) ==
    LET r == IF ~found THEN Failed(call.cb, events)
             ELSE Milestone(call.cb, events, 50, "repack")
    IN  /\ Advance(r)
        /\ call' = [call EXCEPT !.temp_dir = temp_dir, !.app_dir = app_dir]
        /\ log' = [log EXCEPT !.escaped = @ \/ r.escaped]

\* lines 80-99: rewrite temp_dir, look for the resources directory, 50%
Validate ==
    /\ pc = "validate"
    /\ ValidateStep(RewriteSeparators(call.temp_dir),
                    AppDir(os, RewriteSeparators(call.temp_dir)),
                    Exists(os, AppDir(os, RewriteSeparators(call.temp_dir)),
                           files, dirs))
    /\ UNCHANGED <<os, files, dirs, prev, calls, faults, rel>>

RepackStep(f, t, ms) ==
    LET opened == t \notin dirs /\ Parent(t) \in dirs
        r == IF f = "fail" \/ ~opened THEN Failed(call.cb, events)
             ELSE Milestone(call.cb, events, 80, "cleanup")
    IN  /\ Advance(r)
        /\ files' = IF opened THEN WriteFile(t, ZipContent(ms), files) ELSE files
        /\ log' = [log EXCEPT !.fault = @ \/ ~FaultFree(f), !.escaped = @ \/ r.escaped,
                              !.repacked = TRUE]

\* lines 101-114: write the output archive, 80%
Repack(f) ==
    /\ pc = "repack"
    /\ MayFault(f)
    /\ RepackStep(f, Resolve(os, call.target),
                  IF f = "fail" THEN <<>>
                  ELSE Repacked(os, Walk(os, call.app_dir, files, dirs),
                                call.app_dir, files))
    /\ faults' = Count(f)
    /\ UNCHANGED <<os, dirs, call, prev, calls, rel>>

CleanupStep(f, c) ==
    LET r == IF c.raised THEN Unexpected(call.cb, events)
             ELSE Milestone(call.cb, events, 100, "done")
    IN  /\ Advance(r)
        /\ files' = c.files
        /\ dirs' = c.dirs
        /\ log' = [log EXCEPT !.fault = @ \/ ~FaultFree(f),
                              !.escaped = @ \/ r.escaped,
                              !.cleanupFailed = c.failed, !.cleaned = TRUE]

\* lines 115-118: remove the temporary directory, 100%, return True
Cleanup(f) ==
    /\ pc = "cleanup"
    /\ MayFault(f)
    /\ CleanupStep(f, _cleanup_temp_dir(os, call.temp_dir, files, dirs, f))
    /\ faults' = Count(f)
    /\ UNCHANGED <<os, call, prev, calls, rel>>

ReturnStep(t) ==
    prev' = [zip |-> call.zip, out |-> call.out, result |-> result,
             fault |-> log.fault, escaped |-> log.escaped,
             output |-> IF t \in DOMAIN files THEN files[t].members ELSE <<>>]

\* the call is over; the caller may start the next one
Return ==
    /\ pc = "done"
    /\ pc' = "idle"
    /\ ReturnStep(Resolve(os, call.target))
    /\ call' = NoCall
    /\ events' = <<>>
    /\ result' = "none"
    /\ log' = NoLog
    /\ UNCHANGED <<os, files, dirs, calls, faults, rel>>

Next ==
    \/ \E zip \in Inputs(os), cb \in Callbacks, f \in {"none", "fail"} :
           Call(zip, OutputDir(os), cb, f)
    \/ \E f \in {"none", "fail"} : Extract(f)
    \/ Validate
    \/ \E f \in {"none", "fail"} : Repack(f)
    \/ \E f \in {"none", "first", "last"} : Cleanup(f)
    \/ Return

Spec == Init /\ [][Next]_vars

\* ------------------------------------- custom_relpath applied on its own
RelAlphabet == {FSL, "a", "-", DOT}
RelStrings(o, n) ==
    {Root(o) \o b : b \in UNION {[1..k -> RelAlphabet] : k \in 0..n}}

InitRel ==
    /\ os \in {"nt", "posix"}
    /\ files = <<>>
    /\ dirs = {}
    /\ pc = "idle"
    /\ call = NoCall
    /\ events = <<>>
    /\ result = "none"
    /\ log = NoLog
    /\ prev = NoPrev
    /\ calls = 0
    /\ faults = 0
    /\ \E p \in RelStrings(os, MaxPathLen), st \in RelStrings(os, MaxStartLen) :
           rel = [NoRel EXCEPT !.path = p, !.start = st]

\* lines 17-47: no statement raises, every path through ends in a return
RelCall ==
    /\ ~rel.done
    /\ rel' = [rel EXCEPT !.out = custom_relpath(os, rel.path, rel.start),
                          !.failed = FALSE, !.done = TRUE]
    /\ UNCHANGED <<os, files, dirs, pc, call, events, result, log, prev, calls, faults>>

NextRel == RelCall

SpecRel == InitRel /\ [][NextRel]_vars

\* ---------------------------------------------- vocabulary of the claims
OutP(o) == IF o = "nt" THEN <<<<"C:">>, <<"o">>>> ELSE <<<<"o">>>>
TempP(o) == OutP(o) \o <<<<TMP>>>>
InputOf(zip) == CHOOSE n \in InputNames : InputPath(os, n) = zip
TargetP(o, n) == OutP(o) \o <<<<n, DOT, "sb3">>>>
Running == pc # "idle"
Returned == pc = "done"
Last(s) == s[Len(s)]
Values(s) == {s[i] : i \in 1..Len(s)}

\* the files of archive n under packaged-project/resources/app/, by relative path
ExpectedEntries(n) ==
    {Member(SubSeq(m.name, Len(AppPrefix) + 1, Len(m.name)), m.data, TRUE) :
        m \in {x \in Values(Archive(n).members) : IsPrefix(AppPrefix, x.name)}}

OutputNow == IF TargetP(os, InputOf(call.zip)) \in DOMAIN files
             THEN files[TargetP(os, InputOf(call.zip))].members ELSE <<>>

OutputBefore == IF TargetP(os, InputOf(call.zip)) \in DOMAIN log.files0
                THEN log.files0[TargetP(os, InputOf(call.zip))].members ELSE <<>>

WellFormed(n) == n = "v"

\* C1: after every call returns, True or False, the temporary workspace
\* <outputDirectory>/temp_extract no longer exists.
C1_TempDirGoneAfterCall ==
    Returned => Under(TempP(os), files, dirs) = {}

\* C2: when the call returns True, the output archive holds exactly one entry
\* per regular file of the input under packaged-project/resources/app/, named
\* by its path relative to that directory, and nothing else.
C2_OutputIsExactlyTheInputResources ==
    Returned /\ result = "True" =>
        /\ Values(OutputNow) = ExpectedEntries(InputOf(call.zip))
        /\ Len(OutputNow) = Cardinality(ExpectedEntries(InputOf(call.zip)))

\* C3 (as stated): the percent values are non-decreasing, the sequence ends
\* with 0 or with 100, and never holds both a 0 and a 100.
C3_Original ==
    /\ \A i \in 1..(Len(events) - 1) : events[i] <= events[i + 1]
    /\ Returned /\ events # <<>> => Last(events) \in {0, 100}
    /\ ~(0 \in Values(events) /\ 100 \in Values(events))

\* C3 (amended): the percent values are a leading run of 10, 50, 80, 100
\* followed only by 0% failure events; a call that returns True ends with 100
\* and one that returns False with 0; 0 and 100 occur together only when the
\* callback raised at 100.
C3_MilestonesThenFailure ==
    LET zs == {i \in 1..Len(events) : events[i] = 0}
        k == Len(events) - Cardinality(zs)
    IN  /\ k <= 4
        /\ \A i \in 1..k : events[i] = <<10, 50, 80, 100>>[i]
        /\ Returned /\ call.cb # "none" /\ result \in {"True", "False"} =>
               events # <<>> /\ Last(events) = (IF result = "True" THEN 100 ELSE 0)
        /\ 0 \in Values(events) /\ 100 \in Values(events) =>
               CallbackRaises(call.cb, 100)

C3_Witness ==
    Returned /\ events = <<10, 50, 0>> /\ result = "False"

\* C4: the call never raises past its boundary, whatever the callback does,
\* and every False return is preceded by a 0% event.
C4_NeverRaises ==
    Returned =>
        /\ result \in {"True", "False"}
        /\ result = "False" /\ call.cb # "none" => 0 \in Values(events)

\* C5: for an input that is not a zip, or a zip without the resources
\* directory, the call does not succeed, runs neither repack nor cleanup, and
\* leaves the place of the output archive as it found it.
C5_InvalidInputLeavesNoOutput ==
    Returned /\ InputOf(call.zip) \in {"n", "l"} =>
        /\ result # "True"
        /\ ~log.repacked /\ ~log.cleaned
        /\ (TargetP(os, InputOf(call.zip)) \in DOMAIN files)
             = (TargetP(os, InputOf(call.zip)) \in DOMAIN log.files0)
        /\ OutputNow = OutputBefore

\* C6: after a failed call, a call with a valid input and the same output
\* directory returns True and its output holds only files of its own input.
C6_NoStaleContentAfterFailure ==
    Returned /\ prev.result \in {"False", "raised"} /\ prev.out = call.out
      /\ WellFormed(InputOf(call.zip)) /\ ~log.fault /\ ~log.escaped =>
        /\ result = "True"
        /\ Values(OutputNow) \subseteq ExpectedEntries(InputOf(call.zip))

\* C7: two calls in a row with the same valid input and output directory both
\* succeed, and the second leaves the output archive as the first made it.
C7_RepeatedCallSameOutput ==
    Returned /\ prev.zip = call.zip /\ prev.out = call.out
      /\ WellFormed(InputOf(call.zip))
      /\ ~log.fault /\ ~log.escaped /\ ~prev.fault /\ ~prev.escaped =>
        /\ prev.result = "True" /\ result = "True"
        /\ OutputNow = prev.output

\* C8: a failure of the cleanup stage does not change the outcome: the call
\* still reports 80 and 100 and returns True, with no 0% event.
C8_CleanupFailureIsNotAFailure ==
    Returned /\ log.cleanupFailed /\ ~log.escaped =>
        /\ result = "True"
        /\ call.cb # "none" => events = <<10, 50, 80, 100>>

C8_Witness ==
    /\ Returned /\ log.cleanupFailed /\ result = "True"
    /\ events = <<10, 50, 80, 100>>
    /\ TempP(os) \in dirs

\* C9: custom_relpath fails explicitly when start is contained in path as a
\* string without being an ancestor of path component by component.
C9_NonAncestorFailsExplicitly ==
    rel.done /\ IsSubstr(AbsPath(os, rel.start), AbsPath(os, rel.path))
             /\ ~IsPrefix(Resolve(os, rel.start), Resolve(os, rel.path)) =>
        rel.failed

====
